---- MODULE Spec2Model ----
\* Model of the voice session engine of src/App.tsx (component App):
\* the session controller (startConversation, stopConversation, the
\* transport callbacks onopen / onmessage / onerror / onclose), the playback
\* scheduler (nextStartTimeRef, sourcesRef) and the transcript aggregator
\* (currentInputTranscriptRef, currentOutputTranscriptRef, messages).
\*
\* The JavaScript runtime is single threaded: every callback runs to its next
\* await without interleaving.  startConversation suspends at
\* `await getUserMedia` (line 60) and `await sessionPromise` (line 162),
\* onmessage suspends at `await decodeAudioData` (line 102); each suspended
\* call is a record of the state and resumes in an action of its own.
\* Several React state updates issued by one callback are applied in order
\* and become visible together when the callback returns.
EXTENDS Integers, Sequences, FiniteSets

\* ---------------------------------------------------------------- bounds
MaxSessions == 2      \* calls of startConversation
AudioSessions == 1    \* the same, where audio is delivered
TextSessions == 1     \* the same, where transcripts are delivered
MaxChunks == 2        \* inbound messages carrying audio
TextChunks == 1       \* the same, where transcripts are delivered
MaxDur == 2           \* longest audio buffer, in clock units
MaxTime == 3          \* last value of an output context's clock
MaxFrags == 3         \* transcript fragments delivered
MaxTurns == 2         \* inbound messages carrying turnComplete
MaxInterrupts == 1    \* inbound messages carrying interrupted

VARIABLES
    messages,                   \* useState<Message[]>            (line 15)
    convState,                  \* useState<ConversationState>    (line 17)
    sessionRef,                 \* 0 = null, else the handle      (line 24)
    audioContextInRef,          \* 0 = null, else the context     (line 25)
    audioContextOutRef,         \* 0 = null, else the context     (line 26)
    sourcesRef,                 \* set of segment ids             (line 27)
    nextStartTimeRef,           \* output clock cursor            (line 28)
    currentInputTranscriptRef,  \* pending user text              (line 29)
    currentOutputTranscriptRef, \* pending assistant text         (line 30)
    pc,                         \* position of each startConversation call
    handle,                     \* transport connection of each call
    ctxIn, ctxOut,              \* state of the AudioContexts each call made
    clock,                      \* currentTime of each output context
    decoding,                   \* onmessage calls suspended at line 102
    segs,                       \* every source started, in start order
    nSessions, nChunks,         \* counters that bound the model:
    nTurns, nIntr, nFrags,      \* calls, and messages by field delivered
    nErrors,                    \* history: onerror callbacks run
    fresh,                      \* history: no chunk enqueued since the
                                \* last interrupted event was handled
    epoch,                      \* history: interrupted events handled
    hi,                         \* history: latest clock read at line 100
                                \* since the last interrupt
    arrIn, arrOut,              \* history: fragments delivered since the
                                \* last message carrying turnComplete
    lastTurn,                   \* history: the last turnComplete handled
    carried                     \* history: the turn buffers, the turns
                                \* flushed and isActive when
                                \* startConversation was last called

vars == <<messages, convState, sessionRef, audioContextInRef,
          audioContextOutRef, sourcesRef, nextStartTimeRef,
          currentInputTranscriptRef, currentOutputTranscriptRef, pc, handle,
          ctxIn, ctxOut, clock, decoding, segs, nSessions, nChunks, nTurns,
          nIntr, nFrags, nErrors, fresh, epoch, hi, arrIn, arrOut, lastTurn,
          carried>>

\* ------------------------------------------------------------- constants
Null == "null"
ConnectionError == "Connection error occurred."         \* line 153
MicError == "Failed to start microphone."               \* line 165
ThrownMessage == "err.message"                          \* line 165

Sessions == 1..MaxSessions
Max(a, b) == IF a >= b THEN a ELSE b

\* Text fragments; <<>> stands for a message without that transcription
\* field (and for an empty text, which `+=` leaves the buffer unchanged on).
Fragments == {<<>>, <<"a">>, <<"b">>}

\* LiveServerMessage.serverContent: every field is optional and the handler
\* tests each one independently (lines 97, 113, 116, 120, 145).
Messages ==
    [audio : 0..MaxDur, inT : Fragments, outT : Fragments,
     turnComplete : BOOLEAN, interrupted : BOOLEAN]

\* ----------------------------------------------------------------- state
Idle == [isActive |-> FALSE, isConnecting |-> FALSE, error |-> Null]

Init ==
    /\ messages = <<>>
    /\ convState = Idle
    /\ sessionRef = 0
    /\ audioContextInRef = 0
    /\ audioContextOutRef = 0
    /\ sourcesRef = {}
    /\ nextStartTimeRef = 0
    /\ currentInputTranscriptRef = <<>>
    /\ currentOutputTranscriptRef = <<>>
    /\ pc = [s \in Sessions |-> "new"]
    /\ handle = [s \in Sessions |-> "none"]
    /\ ctxIn = [s \in Sessions |-> "none"]
    /\ ctxOut = [s \in Sessions |-> "none"]
    /\ clock = [s \in Sessions |-> 0]
    /\ decoding = {}
    /\ segs = <<>>
    /\ nSessions = 0
    /\ nChunks = 0
    /\ nTurns = 0
    /\ nIntr = 0
    /\ nFrags = 0
    /\ nErrors = 0
    /\ fresh = FALSE
    /\ epoch = 0
    /\ hi = 0
    /\ arrIn = <<>>
    /\ arrOut = <<>>
    /\ lastTurn = [n |-> 0, expected |-> <<>>]
    /\ carried = [n |-> 0, userText |-> <<>>, aiText |-> <<>>,
                  active |-> FALSE]

\* ---------------------------------------------------- session controller
\* setConvState(prev => ({ ...prev, isConnecting: true, error: null }))
StartState(prev) == [prev EXCEPT !.isConnecting = TRUE, !.error = Null]

\* setConvState({ isActive: true, isConnecting: false, error: null })
OpenState == [isActive |-> TRUE, isConnecting |-> FALSE, error |-> Null]

\* setConvState(prev => ({ ...prev, error: 'Connection error occurred.' }))
ErrorState(prev) == [prev EXCEPT !.error = ConnectionError]

\* setConvState({ isActive: false, isConnecting: false, error: err.message || ... })
CatchState(msg) == [isActive |-> FALSE, isConnecting |-> FALSE, error |-> msg]

\* Bug variant: stopConversation leaves the session state as it is.
AfterStopKeepsState(prev) == prev

\* The last statement of stopConversation, applied to the pending state.
AfterStop(prev) == Idle

\* handle.close(): an open connection starts closing and its onclose callback
\* is delivered later; close() of any other connection changes nothing.
CloseHandle(h, s) ==
    IF s # 0 /\ h[s] = "open" THEN [h EXCEPT ![s] = "closing"] ELSE h

\* AudioContext.close() of the context a ref holds (0 = null: skipped).
CloseContext(c, s) == IF s # 0 THEN [c EXCEPT ![s] = "closed"] ELSE c

\* The referenced handle after stopConversation's first block.
StopSessionRef == 0

\* stopConversation, all but its setConvState.
StopResources(h) ==
    /\ handle' = CloseHandle(h, sessionRef)
    /\ sessionRef' = StopSessionRef
    /\ ctxIn' = CloseContext(ctxIn, audioContextInRef)
    /\ audioContextInRef' = 0
    /\ ctxOut' = CloseContext(ctxOut, audioContextOutRef)
    /\ audioContextOutRef' = 0

audioVars == <<sourcesRef, nextStartTimeRef, decoding, segs, nChunks, nIntr,
               epoch, hi, fresh>>
textVars == <<messages, currentInputTranscriptRef,
              currentOutputTranscriptRef, nTurns, nFrags, arrIn, arrOut,
              lastTurn>>
resourceVars == <<sessionRef, audioContextInRef, audioContextOutRef, handle,
                  ctxIn, ctxOut>>

\* The button that calls startConversation is rendered while !isActive and
\* is disabled while isConnecting.
CanStart == ~convState.isActive /\ ~convState.isConnecting

\* The button that calls stopConversation is rendered while isActive.
CanStop == convState.isActive

\* startConversation up to `await getUserMedia`: the function tests nothing
\* before its first statement.
StartConversation(n) ==
    /\ nSessions < n
    /\ nSessions' = nSessions + 1
    /\ convState' = StartState(convState)
    /\ pc' = [pc EXCEPT ![nSessions + 1] = "mic"]
    /\ carried' = [n |-> lastTurn.n,
                   userText |-> currentInputTranscriptRef,
                   aiText |-> currentOutputTranscriptRef,
                   active |-> convState.isActive]
    /\ UNCHANGED <<resourceVars, clock, nErrors, audioVars, textVars>>

\* startConversation called from its button.
Start(n) ==
    /\ CanStart
    /\ StartConversation(n)

\* getUserMedia resolves: the contexts are created and ai.live.connect is
\* called; the call suspends at `await sessionPromise`.
MicGranted(s) ==
    /\ pc[s] = "mic"
    /\ ctxIn' = [ctxIn EXCEPT ![s] = "running"]
    /\ ctxOut' = [ctxOut EXCEPT ![s] = "running"]
    /\ audioContextInRef' = s
    /\ audioContextOutRef' = s
    /\ handle' = [handle EXCEPT ![s] = "pending"]
    /\ pc' = [pc EXCEPT ![s] = "conn"]
    /\ UNCHANGED <<convState, sessionRef, clock, nSessions, carried, nErrors, audioVars, textVars>>

\* getUserMedia rejects: the catch block.
MicDenied(s) ==
    /\ pc[s] = "mic"
    /\ \E msg \in {MicError, ThrownMessage} : convState' = CatchState(msg)
    /\ pc' = [pc EXCEPT ![s] = "failed"]
    /\ UNCHANGED <<resourceVars, clock, nSessions, carried, nErrors, audioVars, textVars>>

\* sessionPromise rejects: the catch block.
ConnectFailed(s) ==
    /\ pc[s] = "conn"
    /\ handle[s] \in {"pending", "failed"}
    /\ handle' = [handle EXCEPT ![s] = "failed"]
    /\ \E msg \in {MicError, ThrownMessage} : convState' = CatchState(msg)
    /\ pc' = [pc EXCEPT ![s] = "failed"]
    /\ UNCHANGED <<sessionRef, audioContextInRef, audioContextOutRef, ctxIn,
                   ctxOut, clock, nSessions, carried, nErrors, audioVars, textVars>>

\* The transport acknowledges the open: callback onopen.
OnOpen(s) ==
    /\ handle[s] = "pending"
    /\ handle' = [handle EXCEPT ![s] = "open"]
    /\ convState' = OpenState
    /\ UNCHANGED <<sessionRef, audioContextInRef, audioContextOutRef, ctxIn,
                   ctxOut, pc, clock, nSessions, carried, nErrors, audioVars, textVars>>

\* sessionPromise resolves: `sessionRef.current = await sessionPromise`.
ConnectResolved(s) ==
    /\ pc[s] = "conn"
    /\ handle[s] \in {"open", "closing", "closed"}
    /\ sessionRef' = s
    /\ pc' = [pc EXCEPT ![s] = "done"]
    /\ UNCHANGED <<convState, audioContextInRef, audioContextOutRef, handle,
                   ctxIn, ctxOut, clock, nSessions, carried, nErrors, audioVars, textVars>>

\* stopConversation called from its button.
Stop ==
    /\ CanStop
    /\ StopResources(handle)
    /\ convState' = AfterStop(convState)
    /\ UNCHANGED <<pc, clock, nSessions, carried, nErrors, audioVars, textVars>>

\* The connection a transport error leaves behind: one that was still
\* opening has failed, an open one is broken and its onclose is to follow.
Broken(h, s) ==
    [h EXCEPT ![s] = IF h[s] = "pending" THEN "failed" ELSE "closing"]

\* Callback onerror of connection s.
OnError(s) ==
    /\ handle[s] \in {"pending", "open"}
    /\ StopResources(Broken(handle, s))
    /\ convState' = AfterStop(ErrorState(convState))
    /\ nErrors' = nErrors + 1
    /\ UNCHANGED <<pc, clock, nSessions, carried, audioVars, textVars>>

\* Callback onclose of connection s: the remote side closed it, or the
\* close() of stopConversation has completed.
OnClose(s) ==
    /\ handle[s] \in {"open", "closing"}
    /\ handle' = [handle EXCEPT ![s] = "closed"]
    /\ convState' = Idle
    /\ UNCHANGED <<sessionRef, audioContextInRef, audioContextOutRef, ctxIn,
                   ctxOut, pc, clock, nSessions, carried, nErrors, audioVars, textVars>>

\* The clock of a running output context advances.
Tick(c) ==
    /\ ctxOut[c] = "running"
    /\ clock[c] < MaxTime
    /\ clock' = [clock EXCEPT ![c] = @ + 1]
    /\ UNCHANGED <<convState, resourceVars, pc, nSessions, carried, nErrors, audioVars, textVars>>

\* ------------------------------------ playback scheduler and transcripts
\* The messages one turnComplete appends (lines 124-139); id and timestamp
\* of a Message are fresh values nothing reads and are left out.
TurnMessages(userText, aiText) ==
    (IF userText # <<>> THEN <<[text |-> userText, sender |-> "user"]>> ELSE <<>>)
    \o (IF aiText # <<>> THEN <<[text |-> aiText, sender |-> "ai"]>> ELSE <<>>)

\* Bug variant: the log is replaced by the turn's messages.
LogReplaced(log, added) == added

\* setMessages(prev => [...prev, message]) for each message of `added`
LogAfterTurn(log, added) == log \o added

\* nextStartTimeRef.current = Math.max(nextStartTimeRef.current, ctx.currentTime)
CursorAtEnqueue(cursor, now) == Max(cursor, now)

\* nextStartTimeRef.current += audioBuffer.duration
CursorAfterStart(cursor, dur) == cursor + dur

\* nextStartTimeRef.current = 0 of the interrupted branch
CursorAfterInterrupt == 0

\* Bug variant: the set is cleared without stopping its segments.
StopNone(sg, srcs) == sg

\* sourcesRef.current.forEach(s => s.stop())
StopAll(sg, srcs) ==
    [i \in DOMAIN sg |-> IF i \in srcs THEN [sg[i] EXCEPT !.stopped = TRUE] ELSE sg[i]]

\* sourcesRef.current.clear()
SourcesAfterInterrupt(srcs) == {}

\* Lines 113-149 of onmessage for message m, from the scheduler state
\* (srcs, cursor, sg, h, fr) the lines before them left; expected is what the
\* message's turnComplete is due to append, fixed when m was delivered.
HandleRest(m, expected, srcs, cursor, sg, h, fr) ==
    LET userText == currentInputTranscriptRef \o m.inT
        aiText == currentOutputTranscriptRef \o m.outT
        added == TurnMessages(userText, aiText)
    IN  /\ IF m.turnComplete
           THEN /\ messages' = LogAfterTurn(messages, added)
                /\ currentInputTranscriptRef' = <<>>
                /\ currentOutputTranscriptRef' = <<>>
                /\ lastTurn' = [n |-> lastTurn.n + 1, expected |-> expected]
           ELSE /\ messages' = messages
                /\ currentInputTranscriptRef' = userText
                /\ currentOutputTranscriptRef' = aiText
                /\ lastTurn' = lastTurn
        /\ IF m.interrupted
           THEN /\ segs' = StopAll(sg, srcs)
                /\ sourcesRef' = SourcesAfterInterrupt(srcs)
                /\ nextStartTimeRef' = CursorAfterInterrupt
                /\ epoch' = epoch + 1
                /\ hi' = 0
                /\ fresh' = TRUE
           ELSE /\ segs' = sg
                /\ sourcesRef' = srcs
                /\ nextStartTimeRef' = cursor
                /\ epoch' = epoch
                /\ hi' = h
                /\ fresh' = fr

\* Callback onmessage of connection s, up to `await decodeAudioData` when
\* the message carries audio and an output context exists, else to its end.
OnMessage(s, m, chunks) ==
    /\ handle[s] = "open"
    /\ m.audio # 0 => nChunks < chunks
    /\ m.turnComplete => nTurns < MaxTurns
    /\ m.interrupted => nIntr < MaxInterrupts
    /\ nFrags + Len(m.inT) + Len(m.outT) <= MaxFrags
    /\ m.audio # 0 \/ m.inT # <<>> \/ m.outT # <<>> \/ m.turnComplete \/ m.interrupted
    /\ nChunks' = IF m.audio # 0 THEN nChunks + 1 ELSE nChunks
    /\ nTurns' = IF m.turnComplete THEN nTurns + 1 ELSE nTurns
    /\ nFrags' = nFrags + Len(m.inT) + Len(m.outT)
    /\ nIntr' = IF m.interrupted THEN nIntr + 1 ELSE nIntr
    /\ arrIn' = IF m.turnComplete THEN <<>> ELSE arrIn \o m.inT
    /\ arrOut' = IF m.turnComplete THEN <<>> ELSE arrOut \o m.outT
    /\ LET expected == IF m.turnComplete
                       THEN TurnMessages(arrIn \o m.inT, arrOut \o m.outT)
                       ELSE <<>>
       IN  IF m.audio # 0 /\ audioContextOutRef # 0
           THEN /\ nextStartTimeRef' =
                      CursorAtEnqueue(nextStartTimeRef, clock[audioContextOutRef])
                /\ hi' = Max(hi, clock[audioContextOutRef])
                /\ fresh' = FALSE
                /\ decoding' = decoding \cup
                      {[id |-> nChunks + 1, ses |-> s, ctx |-> audioContextOutRef,
                        enq |-> clock[audioContextOutRef], first |-> fresh,
                        enqEpoch |-> epoch, m |-> m, expected |-> expected]}
                /\ UNCHANGED <<sourcesRef, segs, epoch, messages, lastTurn,
                               currentInputTranscriptRef,
                               currentOutputTranscriptRef>>
           ELSE /\ HandleRest(m, expected, sourcesRef, nextStartTimeRef, segs,
                              hi, fresh)
                /\ UNCHANGED decoding
    /\ UNCHANGED <<convState, resourceVars, pc, clock, nSessions, carried, nErrors>>

\* The segment source.start(cursor) starts, for suspended call d.
NewSegment(d, cursor) ==
    [id |-> d.id, ctx |-> d.ctx, start |-> cursor, dur |-> d.m.audio,
     enq |-> d.enq, first |-> d.first, enqEpoch |-> d.enqEpoch,
     epoch |-> epoch, hi |-> hi,
     stopped |-> FALSE, ended |-> FALSE]

\* decodeAudioData resolves and the call resumes at line 103.  outNode is
\* the gain node of the context connection d.ses made (line 65):
\* source.connect(outNode) throws for a source of another context and the
\* call ends there.
DecodeDone(d) ==
    /\ d \in decoding
    /\ decoding' = decoding \ {d}
    /\ IF d.ctx # d.ses
       THEN UNCHANGED <<sourcesRef, nextStartTimeRef, segs, epoch, hi, fresh,
                        messages,
                        currentInputTranscriptRef, currentOutputTranscriptRef,
                        lastTurn>>
       ELSE HandleRest(d.m, d.expected,
                 sourcesRef \cup {Len(segs) + 1},
                 CursorAfterStart(nextStartTimeRef, d.m.audio),
                 Append(segs, NewSegment(d, nextStartTimeRef)),
                 0, fresh)
    /\ UNCHANGED <<convState, resourceVars, pc, clock, nSessions, carried, nErrors, nChunks,
                   nTurns, nIntr, nFrags, arrIn, arrOut>>

\* decodeAudioData rejects: the call ends at line 102.
DecodeFailed(d) ==
    /\ d \in decoding
    /\ decoding' = decoding \ {d}
    /\ UNCHANGED <<convState, resourceVars, pc, clock, nSessions, carried, nErrors, nChunks,
                   nTurns, nIntr, sourcesRef, nextStartTimeRef, segs, epoch, hi,
                   fresh, textVars>>

\* source.onended: the segment has played to its end or was stopped.
OnEnded(i) ==
    /\ i \in DOMAIN segs
    /\ ~segs[i].ended
    /\ \/ segs[i].stopped
       \/ /\ ctxOut[segs[i].ctx] = "running"
          /\ clock[segs[i].ctx] >= segs[i].start + segs[i].dur
    /\ segs' = [segs EXCEPT ![i].ended = TRUE]
    /\ sourcesRef' = sourcesRef \ {i}
    /\ UNCHANGED <<convState, resourceVars, pc, clock, nSessions, carried, nErrors, nChunks,
                   nTurns, nIntr, nextStartTimeRef, decoding, epoch, hi, fresh,
                   textVars>>

\* Steps of the session controller, for at most n calls of
\* startConversation.
Lifecycle(n) ==
    \/ Start(n)
    \/ Stop
    \/ \E s \in Sessions :
          \/ MicGranted(s)
          \/ MicDenied(s)
          \/ ConnectFailed(s)
          \/ OnOpen(s)
          \/ ConnectResolved(s)
          \/ OnError(s)
          \/ OnClose(s)

\* Delivery of one inbound message drawn from Msgs, at most `chunks` of
\* the messages delivered carrying audio.
Deliver(Msgs, chunks) ==
    \E s \in Sessions, m \in Msgs : OnMessage(s, m, chunks)

\* Messages of the playback scheduler: audio and interrupted only.
AudioMessages ==
    {m \in Messages : m.inT = <<>> /\ m.outT = <<>> /\ ~m.turnComplete}

\* Messages of the transcript aggregator; audio, when present, of one length.
TextMessages == {m \in Messages : m.audio <= 1}

\* The session controller alone.
NextSession == Lifecycle(MaxSessions)

\* The playback scheduler within AudioSessions sessions.
NextAudio ==
    \/ Lifecycle(AudioSessions)
    \/ Deliver(AudioMessages, MaxChunks)
    \/ \E d \in decoding : DecodeDone(d) \/ DecodeFailed(d)
    \/ \E i \in 1..MaxChunks : OnEnded(i)
    \/ \E c \in Sessions : Tick(c)

\* The transcript aggregator within TextSessions sessions, the output
\* clocks standing still.
NextText ==
    \/ Lifecycle(TextSessions)
    \/ Deliver(TextMessages, TextChunks)
    \/ \E d \in decoding : DecodeDone(d) \/ DecodeFailed(d)
    \/ \E i \in 1..MaxChunks : OnEnded(i)

\* The steps that are not the completion of a decode, each taken only while
\* no onmessage call is suspended.
BetweenMessages(n, Msgs, chunks) ==
    \/ decoding = {} /\ Start(n)
    \/ decoding = {} /\ Stop
    \/ \E s \in Sessions :
          \/ decoding = {} /\ MicGranted(s)
          \/ decoding = {} /\ MicDenied(s)
          \/ decoding = {} /\ ConnectFailed(s)
          \/ decoding = {} /\ OnOpen(s)
          \/ decoding = {} /\ ConnectResolved(s)
          \/ decoding = {} /\ OnError(s)
          \/ decoding = {} /\ OnClose(s)
    \/ \E s \in Sessions, m \in Msgs : decoding = {} /\ OnMessage(s, m, chunks)
    \/ \E i \in 1..MaxChunks : decoding = {} /\ OnEnded(i)
    \/ \E c \in Sessions : decoding = {} /\ Tick(c)

\* Messages that carry audio and nothing else.
ChunkMessages == {m \in AudioMessages : m.audio # 0 /\ ~m.interrupted}

\* The playback scheduler across MaxSessions sessions, every decode
\* completing before the next event of any kind.
NextRestart ==
    \/ BetweenMessages(MaxSessions, ChunkMessages, MaxChunks)
    \/ \E d \in decoding : DecodeDone(d) \/ DecodeFailed(d)

\* Messages that carry transcript fragments or turnComplete and no audio.
TranscriptMessages == {m \in Messages : m.audio = 0 /\ ~m.interrupted}

\* The transcript aggregator across MaxSessions sessions.
NextCarry ==
    \/ Lifecycle(MaxSessions)
    \/ Deliver(TranscriptMessages, MaxChunks)

\* The session controller with startConversation called by any caller, in
\* any state, as well as from its button.
NextInvoke ==
    \/ Lifecycle(MaxSessions)
    \/ StartConversation(MaxSessions)

\* Every step of the program.
Next ==
    \/ Lifecycle(MaxSessions)
    \/ Deliver(Messages, MaxChunks)
    \/ \E d \in decoding : DecodeDone(d) \/ DecodeFailed(d)
    \/ \E i \in 1..MaxChunks : OnEnded(i)
    \/ \E c \in Sessions : Tick(c)

Spec == Init /\ [][Next]_vars
SpecSession == Init /\ [][NextSession]_vars
SpecAudio == Init /\ [][NextAudio]_vars
SpecText == Init /\ [][NextText]_vars
SpecRestart == Init /\ [][NextRestart]_vars
SpecCarry == Init /\ [][NextCarry]_vars
SpecInvoke == Init /\ [][NextInvoke]_vars

\* ------------------------------------------------------------ properties
\* The segment started for the k-th audio chunk delivered.
SegOf(k) == CHOOSE i \in DOMAIN segs : segs[i].id = k

RECURSIVE SumDur(_)
\* Total duration of the first n audio chunks delivered.
SumDur(n) == IF n = 0 THEN 0 ELSE SumDur(n - 1) + segs[SegOf(n)].dur

\* C1 as stated, for chunks all enqueued at one reading t0 of the output
\* clock (the maximum of line 100 then leaves the cursor where the starts
\* before it put it): with no interrupted event delivered and every chunk
\* delivered so far started, the segment of chunk i, in arrival order, starts
\* at t0 + d1 + ... + d(i-1).
C1_StartIsSumOfDurations ==
    (/\ nIntr = 0
     /\ Len(segs) = nChunks
     /\ \A i \in DOMAIN segs : segs[i].enq = segs[1].enq)
    => \A k \in 1..nChunks :
           segs[SegOf(k)].start = segs[SegOf(1)].enq + SumDur(k - 1)

\* C2: the step that handles an interrupted event stops every segment that is
\* in sourcesRef at that moment (the one its own audio added included),
\* leaves sourcesRef empty and the cursor 0.
C2_InterruptStopsAll ==
    [][epoch' # epoch =>
        /\ \A i \in sourcesRef : segs'[i].stopped
        /\ \A i \in DOMAIN segs' : i \notin DOMAIN segs => segs'[i].stopped
        /\ sourcesRef' = {}
        /\ nextStartTimeRef' = 0]_vars

\* An interrupted event has been handled and stopped a segment that had not
\* ended; no chunk has been enqueued since.
C2_Witness ==
    /\ epoch >= 1
    /\ fresh
    /\ \E i \in DOMAIN segs : segs[i].stopped /\ ~segs[i].ended

\* C3 as stated: the first chunk enqueued after an interrupted event was
\* handled is started at the output clock time read at its enqueue.
C3_StartsAtEnqueueClock ==
    \A k \in DOMAIN segs : segs[k].first => segs[k].start = segs[k].enq

\* C4 as stated: the step that handles a turnComplete appends exactly the
\* messages of the fragments delivered since the previous turnComplete was
\* delivered, concatenated per side in arrival order, the user's before the
\* assistant's and none for a side without text, and leaves both turn
\* buffers empty.
C4_FlushAppendsTurn ==
    [][lastTurn'.n # lastTurn.n =>
        /\ messages' = messages \o lastTurn'.expected
        /\ currentInputTranscriptRef' = <<>>
        /\ currentOutputTranscriptRef' = <<>>]_vars

\* log is a prefix of longer.
IsPrefix(log, longer) ==
    /\ Len(log) <= Len(longer)
    /\ \A i \in 1..Len(log) : longer[i] = log[i]

\* C5: every step leaves the messages already in the log as they are, in
\* their places, and only a step that handles a turnComplete adds any.
C5_LogAppendOnly ==
    [][/\ IsPrefix(messages, messages')
       /\ messages' # messages => lastTurn'.n = lastTurn.n + 1]_vars

\* Two turns have been flushed into a log that holds a message of each, and
\* a fragment delivered since is buffered, not in the log.
C5_Witness ==
    /\ lastTurn.n = 2
    /\ Len(messages) >= 2
    /\ currentInputTranscriptRef \o currentOutputTranscriptRef # <<>>

\* C6: exactly one of idle, connecting, active, errored holds: isActive and
\* isConnecting are never both true and an error is recorded only while both
\* are false.
C6_ExactlyOneState ==
    /\ ~(convState.isActive /\ convState.isConnecting)
    /\ convState.error # Null => ~convState.isActive /\ ~convState.isConnecting

\* The session is errored after a call during which onerror had run too.
C6_Witness ==
    /\ convState.error # Null
    /\ nErrors >= 1
    /\ nSessions >= 2

\* C7 as stated: at most one transport connection is open.
C7_AtMostOneOpen == Cardinality({s \in Sessions : handle[s] = "open"}) <= 1

\* C8 as stated, for the audio contexts of the sessions whose
\* startConversation call has returned: while the session is neither
\* connecting nor active, the input and output contexts made for it are
\* closed.
C8_ReleasedWhenEnded ==
    (~convState.isActive /\ ~convState.isConnecting) =>
        \A s \in Sessions :
            pc[s] = "done" => ctxIn[s] # "running" /\ ctxOut[s] # "running"

\* C9 as stated: the step that handles a transport error while the session is
\* active leaves it errored with the generic message, no connection open and
\* no audio context running.
C9_ErrorWhileActive ==
    [][(nErrors' # nErrors /\ convState.isActive) =>
        /\ convState' = CatchState(ConnectionError)
        /\ \A s \in Sessions :
              /\ handle'[s] # "open"
              /\ ctxIn'[s] # "running"
              /\ ctxOut'[s] # "running"]_vars

\* C10 as stated: a call of startConversation that fails leaves the session
\* errored; no connection is attempted but by a call of startConversation;
\* and the error recorded for the latest call, made after the earlier calls
\* had returned and with no connection left open or opening, stays recorded
\* until startConversation is called again.
C10_ErrorStaysUntilStart ==
    [][/\ \A s \in Sessions :
             (pc[s] # "failed" /\ pc'[s] = "failed") =>
                 /\ ~convState'.isActive
                 /\ ~convState'.isConnecting
                 /\ convState'.error # Null
       /\ Cardinality({s \in Sessions : handle'[s] # "none"}) <= nSessions'
       /\ (/\ convState.error # Null
           /\ nSessions >= 1 /\ pc[nSessions] = "failed"
           /\ \A s \in 1..nSessions : pc[s] \in {"done", "failed"}
           /\ \A s \in Sessions : handle[s] \notin {"pending", "open"}
           /\ nSessions' = nSessions) =>
             convState'.error # Null]_vars

\* C11 as stated: a call of startConversation made while the session is
\* active is a no-op: no step of that call, its first statement included,
\* changes the session state, the stored handle or the audio contexts, and
\* none opens a transport connection.
C11_StartWhileActiveNoOp ==
    [][\A s \in Sessions :
        (pc'[s] # pc[s] /\ s = nSessions' /\ carried'.active) =>
            /\ convState' = convState
            /\ sessionRef' = sessionRef
            /\ audioContextInRef' = audioContextInRef
            /\ audioContextOutRef' = audioContextOutRef
            /\ ctxIn' = ctxIn /\ ctxOut' = ctxOut
            /\ handle' = handle]_vars

\* C12 as stated: stopConversation run while the session is idle (its button
\* is not rendered then; onerror calls it in any state) changes nothing: the
\* session state, the stored handle and the context refs stay as they are,
\* no context is closed and no connection but the one the error broke
\* changes.
C12_StopWhileIdleNoOp ==
    [][(nErrors' # nErrors /\ convState = Idle) =>
        /\ convState' = convState
        /\ sessionRef' = sessionRef
        /\ audioContextInRef' = audioContextInRef
        /\ audioContextOutRef' = audioContextOutRef
        /\ ctxIn' = ctxIn /\ ctxOut' = ctxOut
        /\ Cardinality({s \in Sessions : handle'[s] # handle[s]}) <= 1]_vars

\* C13 as stated: the first segment started on the output context of a
\* session, each chunk being handled to its end before the next is
\* delivered, is started at the output clock time read at its enqueue.
C13_FirstChunkAtClock ==
    \A k \in DOMAIN segs :
        (/\ \A j \in 1..(k - 1) : segs[j].ctx # segs[k].ctx
         /\ \A s \in Sessions \ {segs[k].ctx} :
               handle[s] \notin {"pending", "open"}) =>
            segs[k].start = segs[k].enq

\* C14 as stated: the step in which an inbound message is delivered while
\* the session is not active leaves the log, both turn buffers, the cursor
\* and the set of active segments as they are.
C14_IgnoredUnlessActive ==
    [][(/\ ~convState.isActive
        /\ \/ nChunks' # nChunks \/ nFrags' # nFrags
           \/ nTurns' # nTurns \/ nIntr' # nIntr) =>
        /\ messages' = messages
        /\ currentInputTranscriptRef' = currentInputTranscriptRef
        /\ currentOutputTranscriptRef' = currentOutputTranscriptRef
        /\ nextStartTimeRef' = nextStartTimeRef
        /\ sourcesRef' = sourcesRef]_vars

\* C15 as stated: no segment is started after an interrupted event has been
\* handled since its message was delivered.
C15_InterruptCancelsPending ==
    \A k \in DOMAIN segs : segs[k].epoch = segs[k].enqEpoch

\* C16 as stated: every segment starts no earlier than each segment started
\* before it on the same output clock and no earlier than the clock time
\* read at its enqueue, and with no interrupted event handled between them a
\* segment starts no earlier than the end of the one started before it.
C16_MonotoneStarts ==
    \A k \in DOMAIN segs :
        /\ \A j \in 1..(k - 1) :
              segs[j].ctx = segs[k].ctx => segs[k].start >= segs[j].start
        /\ segs[k].start >= segs[k].enq
        /\ (k > 1 /\ segs[k - 1].ctx = segs[k].ctx
                  /\ segs[k - 1].epoch = segs[k].epoch) =>
              segs[k].start >= segs[k - 1].start + segs[k - 1].dur

\* C17 as stated: of two chunks of one session delivered and started with
\* no interrupted event handled in between, the one delivered first is
\* started at the earlier output time.
C17_ArrivalOrder ==
    \A j, k \in DOMAIN segs :
        (/\ segs[j].ctx = segs[k].ctx
         /\ segs[j].id < segs[k].id
         /\ segs[j].enqEpoch = segs[k].enqEpoch
         /\ segs[j].epoch = segs[j].enqEpoch
         /\ segs[k].epoch = segs[k].enqEpoch) =>
            segs[j].start < segs[k].start

\* C18 as stated: the step in which the decode of a message's audio fails
\* leaves the session state, the segments started, the active set and the
\* cursor as they are, and the failure does not reach the turn buffers and
\* the log: the message's transcript fragments and its turnComplete take
\* effect as they do for a message whose audio is decoded.
C18_DecodeFailureIsLocal ==
    [][\A d \in decoding :
        (/\ decoding' = decoding \ {d}
         /\ Len(segs') = Len(segs)
         /\ d.ctx = d.ses
         /\ ~d.m.interrupted) =>
            LET userText == currentInputTranscriptRef \o d.m.inT
                aiText == currentOutputTranscriptRef \o d.m.outT
            IN  /\ convState' = convState
                /\ segs' = segs
                /\ sourcesRef' = sourcesRef
                /\ nextStartTimeRef' = nextStartTimeRef
                /\ IF d.m.turnComplete
                   THEN /\ messages' = messages \o TurnMessages(userText, aiText)
                        /\ currentInputTranscriptRef' = <<>>
                        /\ currentOutputTranscriptRef' = <<>>
                   ELSE /\ messages' = messages
                        /\ currentInputTranscriptRef' = userText
                        /\ currentOutputTranscriptRef' = aiText]_vars

\* C19 as stated, its part that a finite run decides: sourcesRef keeps no
\* segment that has ended and none of an output context that has been
\* closed, as stopConversation closes it on stop and on error.
C19_NoSegmentKept ==
    \A i \in sourcesRef :
        /\ ~segs[i].ended
        /\ ctxOut[segs[i].ctx] = "running"

\* C20 as stated: the first turnComplete handled since startConversation was
\* last called, no connection of an earlier call being open or opening,
\* finds in the turn buffers no fragment that was there at that call, so the
\* messages it appends hold fragments of its own session only.
C20_NoCarryOver ==
    [][(/\ lastTurn'.n # lastTurn.n
        /\ lastTurn.n = carried.n
        /\ \A s \in Sessions \ {nSessions} :
              handle[s] \notin {"pending", "open"}) =>
            /\ carried.userText = <<>>
            /\ carried.aiText = <<>>]_vars

====
